---- MODULE Spec2Model ----
(***************************************************************************)
(* JobScheduler and TaskQueue of modktx as a state machine, with the       *)
(* folder deletion of ContentFileManager, the JWT cache of RESTComponent   *)
(* and the post-processing of BaseContentComponent and ContentBuilder,     *)
(* each under a specification of its own.                                  *)
(*                                                                         *)
(* One action is one turn of the JavaScript event loop: a timer callback,  *)
(* a call of the public API, the settling of a job's promise, or one       *)
(* promise continuation (microtask).  Code that runs synchronously inside  *)
(* a turn is composed functionally over a record `h` of the mutable        *)
(* fields, so that an action is the whole turn.                            *)
(***************************************************************************)
EXTENDS Integers, Sequences, FiniteSets, TLC

VARIABLES
    jobs,           \* JobScheduler.jobs: the job list given to the constructor
    executionMode,  \* JobScheduler.executionMode
    timers,         \* JobScheduler.timers: every handle ever pushed
    jobStates,      \* JobScheduler.jobStates: Map name -> boolean, insertion order
    queue,          \* TaskQueue.queue: closures waiting, each captures its job
    isProcessing,   \* TaskQueue.isProcessing
    calls,          \* task closures suspended at `await job.execute()`
    resumes,        \* processQueue activations whose `await task()` has settled
    escaped,        \* an error left the task closure (rejection of its promise)
    script,         \* what each task handed to add() by a direct caller does
    rejected,       \* the promise a processQueue activation awaits was rejected
    sinceStop,      \* number of start() calls since the last stop()
    nStarts,        \* number of start() calls made so far
    phase,          \* which of start()/stop() was called last
    order,          \* accepted dispatches whose execute() was not yet invoked
    lastOp,         \* the turn just taken and what it returned or threw
    ROOT_DIR,       \* ContentFileManager.ROOT_DIR
    folders,        \* the directories that exist in the file system
    cachedJwt,      \* RESTComponent._cachedJwt
    now,            \* Date.now()
    posts,          \* login calls of RESTComponent.getJwt awaiting their reply
    postProcessors, \* the postProcessors lists of a component and of a builder
    runs            \* getContent() and compose() calls in progress

\* the fields of the file manager, of the REST component and of the content
\* pipeline; the scheduler and the task queue write none of them
fileVars == <<ROOT_DIR, folders>>
restVars == <<cachedJwt, now, posts>>
pipeVars == <<postProcessors, runs>>

\* the fields of the scheduler and of the task queue
schedVars == <<jobs, executionMode, timers, jobStates, queue, isProcessing,
               calls, resumes, escaped, script, rejected, sinceStop, nStarts,
               phase, order>>

vars == <<schedVars, lastOp, fileVars, restVars, pipeVars>>

----------------------------------------------------------------------------
(* Bounds *)

MaxStarts == 2

----------------------------------------------------------------------------
(* Interval tokens are sequences of characters. *)

Digits == {"0", "1", "2", "3", "4", "5", "6", "7", "8", "9"}

DigitVal(c) ==
    CASE c = "0" -> 0 [] c = "1" -> 1 [] c = "2" -> 2 [] c = "3" -> 3
      [] c = "4" -> 4 [] c = "5" -> 5 [] c = "6" -> 6 [] c = "7" -> 7
      [] c = "8" -> 8 [] c = "9" -> 9

\* String.prototype.slice(-1)
sliceLast(s) == IF Len(s) = 0 THEN <<>> ELSE <<s[Len(s)]>>

\* String.prototype.slice(0, -1)
sliceInit(s) == IF Len(s) = 0 THEN <<>> ELSE SubSeq(s, 1, Len(s) - 1)

RECURSIVE skipSpace(_)
skipSpace(s) ==
    IF Len(s) > 0 /\ Head(s) = " " THEN skipSpace(Tail(s)) ELSE s

RECURSIVE readDigits(_, _, _)
readDigits(s, acc, seen) ==
    IF Len(s) > 0 /\ Head(s) \in Digits
    THEN readDigits(Tail(s), acc * 10 + DigitVal(Head(s)), TRUE)
    ELSE [nan |-> ~seen, n |-> acc]

\* parseInt(string, 10): leading blanks, an optional sign, then the longest
\* run of digits; NaN when there is no digit.
parseInt(s) ==
    LET t    == skipSpace(s)
        neg  == Len(t) > 0 /\ Head(t) = "-"
        sgn  == Len(t) > 0 /\ Head(t) \in {"-", "+"}
        r    == readDigits(IF sgn THEN Tail(t) ELSE t, 0, FALSE)
    IN  [nan |-> r.nan, n |-> IF neg THEN 0 - r.n ELSE r.n]

\* A number times a constant; NaN stays NaN.
times(v, k) == [nan |-> v.nan, n |-> v.n * k]

\* convertIntervalToMs falling back to minutes for an unknown unit.
convertIntervalToMsDefault(interval) ==
    [threw |-> FALSE, ms |-> times(parseInt(sliceInit(interval)), 60 * 1000)]

\* convertIntervalToMs with the hour branch using the length of a minute.
convertIntervalToMsHourSlip(interval) ==
    LET unit  == sliceLast(interval)
        value == parseInt(sliceInit(interval))
    IN  CASE unit = <<"m">> -> [threw |-> FALSE, ms |-> times(value, 60 * 1000)]
          [] unit = <<"h">> -> [threw |-> FALSE, ms |-> times(value, 60 * 1000)]
          [] unit = <<"d">> -> [threw |-> FALSE, ms |-> times(value, 24 * 60 * 60 * 1000)]
          [] OTHER          -> [threw |-> TRUE,  ms |-> [nan |-> TRUE, n |-> 0]]

convertIntervalToMs(interval) ==
    LET unit  == sliceLast(interval)
        value == parseInt(sliceInit(interval))
    IN  CASE unit = <<"m">> -> [threw |-> FALSE, ms |-> times(value, 60 * 1000)]
          [] unit = <<"h">> -> [threw |-> FALSE, ms |-> times(value, 60 * 60 * 1000)]
          [] unit = <<"d">> -> [threw |-> FALSE, ms |-> times(value, 24 * 60 * 60 * 1000)]
          [] OTHER          -> [threw |-> TRUE,  ms |-> [nan |-> TRUE, n |-> 0]]

----------------------------------------------------------------------------
(* Map<string, boolean> with insertion order *)

MapHas(m, k) == \E i \in 1..Len(m) : m[i].key = k

\* Map.get; a missing key gives undefined, which is falsy
MapGet(m, k) ==
    IF MapHas(m, k) THEN (m[CHOOSE i \in 1..Len(m) : m[i].key = k]).val ELSE FALSE

\* Map.set adding an entry without looking for the key.
MapSetAppend(m, k, v) == Append(m, [key |-> k, val |-> v])

\* Map.set: an existing key keeps its position
MapSet(m, k, v) ==
    IF MapHas(m, k)
    THEN [i \in 1..Len(m) |-> IF m[i].key = k THEN [key |-> k, val |-> v] ELSE m[i]]
    ELSE Append(m, [key |-> k, val |-> v])

----------------------------------------------------------------------------
(* Configurations *)

Job(n, i) == [name |-> n, interval |-> i]

ExecutionMode == {"parallel", "sequential"}

\* Job lists the scheduler is constructed with in the checked behaviours:
\* three distinct jobs, two jobs sharing a name, and a list of three whose
\* second interval has an unknown unit.
JobLists ==
    { << Job("a", <<"1", "m">>), Job("b", <<"1", "h">>), Job("c", <<"1", "d">>) >>,
      << Job("a", <<"5", "m">>), Job("a", <<"1", "5", "m">>) >>,
      << Job("a", <<"4", "h">>), Job("b", <<"1", "s">>), Job("c", <<"1", "d">>) >> }

\* What one call of job.execute() does before control returns to the caller:
\* it returns a promise that is still pending, one that is already fulfilled
\* or rejected, or it throws.
ExecOutcome == {"pending", "resolved", "rejected", "throws"}

\* The record of a turn: the operation, the job it was about, its result,
\* the job whose execute() it called (0: none) with what that call did, the
\* position of that job among the accepted dispatches still to be run, the
\* number of armed timers a stop() cancelled, and a returned list.
NoOp ==
    [op |-> "new", job |-> 0, res |-> "", invoked |-> 0, out |-> "", pos |-> 0,
     n |-> 0, ret |-> <<>>]

RECURSIVE initStates(_, _)
initStates(js, m) ==
    IF js = <<>> THEN m ELSE initStates(Tail(js), MapSet(m, Head(js).name, FALSE))

----------------------------------------------------------------------------
(* Sequence helpers *)

RemoveAt(s, i) == SubSeq(s, 1, i - 1) \o SubSeq(s, i + 1, Len(s))

\* position of the first occurrence of x in s, 0 when absent
IndexOf(s, x) ==
    IF \E i \in 1..Len(s) : s[i] = x
    THEN CHOOSE i \in 1..Len(s) : s[i] = x /\ \A k \in 1..(i - 1) : s[k] # x
    ELSE 0

----------------------------------------------------------------------------
(* The mutable fields as one record, threaded through the synchronous code *)

Heap ==
    [jobStates |-> jobStates, queue |-> queue, isProcessing |-> isProcessing,
     calls |-> calls, resumes |-> resumes, escaped |-> escaped,
     script |-> script, rejected |-> rejected, invoked |-> 0, out |-> "",
     ran |-> <<>>]

\* taskBody without its try/finally: a throw of execute() leaves the flag
\* set and rejects the closure's promise.
taskBodyNoFinally(h, j, out, awaited) ==
    LET h1 == [h EXCEPT !.invoked = j, !.out = out, !.ran = Append(@, j)]
    IN  IF out = "throws"
        THEN [h1 EXCEPT !.escaped = TRUE,
                        !.resumes = IF awaited THEN @ + 1 ELSE @]
        ELSE [h1 EXCEPT !.calls = Append(@, [job |-> j, pc |-> out,
                                             awaited |-> awaited])]

\* taskBody calling job.execute() without awaiting it: the finally block
\* clears the flag in the same turn.
taskBodyNoAwait(h, j, out, awaited) ==
    LET h1 == [h EXCEPT !.invoked = j, !.out = out, !.ran = Append(@, j),
                        !.jobStates = MapSet(@, jobs[j].name, FALSE)]
    IN  IF out = "throws"
        THEN [h1 EXCEPT !.resumes = IF awaited THEN @ + 1 ELSE @]
        ELSE [h1 EXCEPT !.calls = Append(@, [job |-> j, pc |-> out,
                                             awaited |-> awaited])]

\* The task closure of executeJob from its call up to `await job.execute()`.
\* `out` is what job.execute() does; `awaited` tells whether the caller
\* (processQueue) awaits the closure's promise.
taskBody(h, j, out, awaited) ==
    LET h1 == [h EXCEPT !.invoked = j, !.out = out, !.ran = Append(@, j)]
    IN  IF out = "throws"
        THEN \* catch logs, finally clears the flag, the closure's promise fulfils
             [h1 EXCEPT !.jobStates = MapSet(@, jobs[j].name, FALSE),
                        !.resumes   = IF awaited THEN @ + 1 ELSE @]
        ELSE [h1 EXCEPT !.calls = Append(@, [job |-> j, pc |-> out,
                                             awaited |-> awaited])]

\* taskResume without catch and finally: a rejection leaves the flag set
\* and rejects the closure's promise.
taskResumeNoFinally(h, i) ==
    LET c == h.calls[i]
    IN  [h EXCEPT !.jobStates = IF c.pc = "rejected" THEN @
                                ELSE MapSet(@, jobs[c.job].name, FALSE),
                  !.escaped   = @ \/ c.pc = "rejected",
                  !.calls     = RemoveAt(@, i),
                  !.resumes   = IF c.awaited THEN @ + 1 ELSE @]

\* The task closure after `await job.execute()` has settled: catch (when
\* rejected), finally, and the fulfilment of the closure's own promise.
taskResume(h, i) ==
    LET c == h.calls[i]
    IN  [h EXCEPT !.jobStates = MapSet(@, jobs[c.job].name, FALSE),
                  !.calls     = RemoveAt(@, i),
                  !.resumes   = IF c.awaited THEN @ + 1 ELSE @]

\* drainLoop that leaves isProcessing set when the queue has run empty.
drainLoopNeverIdle(h, out) ==
    IF Len(h.queue) > 0
    THEN taskBody([h EXCEPT !.queue = Tail(@)], Head(h.queue), out, TRUE)
    ELSE h

\* drainLoop taking the newest task (pop) instead of the oldest (shift).
drainLoopPop(h, out) ==
    IF Len(h.queue) > 0
    THEN taskBody([h EXCEPT !.queue = SubSeq(@, 1, Len(@) - 1)],
                  h.queue[Len(h.queue)], out, TRUE)
    ELSE [h EXCEPT !.isProcessing = FALSE]

\* TaskQueue.processQueue from the loop test: one iteration runs up to
\* `await task()`, or the loop ends and the flag is lowered.
\* drainLoop lowering isProcessing as soon as it has called a task.
drainLoopEarlyIdle(h, out) ==
    IF Len(h.queue) > 0
    THEN LET x  == Head(h.queue)
             b  == h.script[x - Len(jobs)]
             h2 == [h EXCEPT !.queue = Tail(@), !.invoked = x, !.out = b,
                             !.ran = Append(@, x), !.isProcessing = FALSE]
         IN  IF b = "pending"
             THEN [h2 EXCEPT !.calls = Append(@, [job |-> x, pc |-> b,
                                                  awaited |-> TRUE])]
             ELSE [h2 EXCEPT !.resumes = @ + 1, !.rejected = (b = "rejected")]
    ELSE [h EXCEPT !.isProcessing = FALSE]

\* The closure at the head is a task closure of the scheduler when it
\* captures a position of the job list; any other closure was handed to
\* add() by a direct caller and does what `script` says.  A closure that
\* throws when called is caught and the loop goes on in the same turn; the
\* others return a promise that processQueue awaits.
RECURSIVE drainLoop(_, _)
drainLoop(h, out) ==
    IF Len(h.queue) > 0
    THEN LET x  == Head(h.queue)
             h1 == [h EXCEPT !.queue = Tail(@)]
         IN  IF x \in 1..Len(jobs)
             THEN taskBody(h1, x, out, TRUE)
             ELSE LET b  == h1.script[x - Len(jobs)]
                      h2 == [h1 EXCEPT !.invoked = x, !.out = b,
                                       !.ran = Append(@, x)]
                  IN  CASE b = "throws"   -> drainLoop(h2, out)
                        [] b = "resolved" -> [h2 EXCEPT !.resumes = @ + 1]
                        [] b = "rejected" -> [h2 EXCEPT !.resumes = @ + 1,
                                                        !.rejected = TRUE]
                        [] OTHER ->
                             [h2 EXCEPT !.calls = Append(@, [job |-> x,
                                           pc |-> b, awaited |-> TRUE])]
    ELSE [h EXCEPT !.isProcessing = FALSE]

\* processQueueResume without the catch: a rejection ends the activation
\* and rejects its promise.
processQueueResumeNoCatch(h, out) ==
    IF h.rejected
    THEN [h EXCEPT !.resumes = @ - 1, !.rejected = FALSE, !.escaped = TRUE]
    ELSE drainLoop([h EXCEPT !.resumes = @ - 1], out)

\* processQueue after `await task()`: a rejection is caught and logged, and
\* the loop test is made again.
processQueueResume(h, out) ==
    drainLoop([h EXCEPT !.resumes = @ - 1, !.rejected = FALSE], out)

\* processQueue without the isProcessing test.
processQueueNoGuard(h, out) == drainLoop([h EXCEPT !.isProcessing = TRUE], out)

processQueue(h, out) ==
    IF h.isProcessing
    THEN h
    ELSE drainLoop([h EXCEPT !.isProcessing = TRUE], out)

\* add putting the closure at the head of the queue (unshift).
addUnshift(h, j, out) == processQueue([h EXCEPT !.queue = <<j>> \o @], out)

\* add calling processQueue before the push.
addLate(h, j, out) ==
    LET h1 == processQueue(h, out) IN [h1 EXCEPT !.queue = Append(@, j)]

\* add calling a job's closure at once instead of queueing it.
addDirect(h, j, out) ==
    IF j \in 1..Len(jobs)
    THEN taskBody(h, j, out, FALSE)
    ELSE processQueue([h EXCEPT !.queue = Append(@, j)], out)

add(h, j, out) == processQueue([h EXCEPT !.queue = Append(@, j)], out)

\* executeJob that, in sequential mode, queues a run of a job whose flag is
\* already set instead of skipping it.
executeJobRequeue(h, j, out) ==
    LET h1 == [h EXCEPT !.jobStates = MapSet(@, jobs[j].name, TRUE)]
    IN  IF executionMode = "parallel"
        THEN IF MapGet(h.jobStates, jobs[j].name)
             THEN h
             ELSE taskBody(h1, j, out, FALSE)
        ELSE add(h1, j, out)

\* executeJob skipping the call when the flag of any job is set.
executeJobGlobalGuard(h, j, out) ==
    IF \E e \in 1..Len(h.jobStates) : h.jobStates[e].val
    THEN h
    ELSE LET h1 == [h EXCEPT !.jobStates = MapSet(@, jobs[j].name, TRUE)]
         IN  IF executionMode = "parallel"
             THEN taskBody(h1, j, out, FALSE)
             ELSE add(h1, j, out)

\* executeJob testing whether the job object itself has a closure queued or
\* executing, instead of the flag stored under its name.
executeJobOwnRuns(h, j, out) ==
    IF \/ \E i \in 1..Len(h.calls) : h.calls[i].job = j
       \/ \E i \in 1..Len(h.queue) : h.queue[i] = j
    THEN h
    ELSE LET h1 == [h EXCEPT !.jobStates = MapSet(@, jobs[j].name, TRUE)]
         IN  IF executionMode = "parallel"
             THEN taskBody(h1, j, out, FALSE)
             ELSE add(h1, j, out)

\* executeJob that, in sequential mode, hands the closure to the queue
\* without setting the flag first.
executeJobFlagLate(h, j, out) ==
    IF MapGet(h.jobStates, jobs[j].name)
    THEN h
    ELSE IF executionMode = "parallel"
         THEN taskBody([h EXCEPT !.jobStates = MapSet(@, jobs[j].name, TRUE)],
                       j, out, FALSE)
         ELSE add(h, j, out)

\* executeJob without the test of the job's flag.
executeJobNoCheck(h, j, out) ==
    LET h1 == [h EXCEPT !.jobStates = MapSet(@, jobs[j].name, TRUE)]
    IN  IF executionMode = "parallel"
        THEN taskBody(h1, j, out, FALSE)
        ELSE add(h1, j, out)

executeJob(h, j, out) ==
    IF MapGet(h.jobStates, jobs[j].name)
    THEN h
    ELSE LET h1 == [h EXCEPT !.jobStates = MapSet(@, jobs[j].name, TRUE)]
         IN  IF executionMode = "parallel"
             THEN taskBody(h1, j, out, FALSE)
             ELSE add(h1, j, out)

\* scheduleJob arming no timer for a job that has an armed one.
scheduleJobOnce(ts, j, intervalMs) ==
    IF \E t \in 1..Len(ts) : ts[t].job = j /\ ~ts[t].cleared
    THEN ts
    ELSE Append(ts, [job |-> j, ms |-> intervalMs, cleared |-> FALSE])

scheduleJob(ts, j, intervalMs) ==
    Append(ts, [job |-> j, ms |-> intervalMs, cleared |-> FALSE])

\* start() converting every interval before it arms the first timer.
startAtomic(ts, i) ==
    IF \E k \in i..Len(jobs) : convertIntervalToMs(jobs[k].interval).threw
    THEN [timers |-> ts, threw |-> TRUE]
    ELSE [timers |-> ts \o [k \in 1..(Len(jobs) - i + 1) |->
                               [job |-> i + k - 1,
                                ms |-> convertIntervalToMs(jobs[i + k - 1].interval).ms,
                                cleared |-> FALSE]],
          threw |-> FALSE]

\* The loop of start() from position i on; it ends by returning or by the
\* throw of convertIntervalToMs.
RECURSIVE start(_, _)
start(ts, i) ==
    IF i > Len(jobs)
    THEN [timers |-> ts, threw |-> FALSE]
    ELSE LET r == convertIntervalToMs(jobs[i].interval)
         IN  IF r.threw
             THEN [timers |-> ts, threw |-> TRUE]
             ELSE start(scheduleJob(ts, i, r.ms), i + 1)

\* stop cancelling one handle per job, the ones of the first start().
stopFirstRound(ts) ==
    [t \in 1..Len(ts) |->
        IF t <= Len(jobs) THEN [ts[t] EXCEPT !.cleared = TRUE] ELSE ts[t]]

stop(ts) == [t \in 1..Len(ts) |-> [ts[t] EXCEPT !.cleared = TRUE]]

\* getActiveJobs without the test of the flag.
getActiveJobsAll(m) == [i \in 1..Len(m) |-> m[i].key]

getActiveJobs(m) ==
    LET act == SelectSeq(m, LAMBDA e : e.val)
    IN  [i \in 1..Len(act) |-> act[i].key]

----------------------------------------------------------------------------
(* Turns *)

\* No promise continuation is waiting to run: timer callbacks run only then.
----------------------------------------------------------------------------
(* ContentFileManager: paths are strings, written as sequences of characters *)

\* process.cwd()
Cwd == <<"/", "r">>

\* String.prototype.startsWith
startsWith(str, prefix) ==
    Len(prefix) <= Len(str) /\ SubSeq(str, 1, Len(prefix)) = prefix

\* the segments of a path between its separators, empty ones included
RECURSIVE split(_, _, _)
split(str, cur, acc) ==
    IF str = <<>>
    THEN Append(acc, cur)
    ELSE IF Head(str) = "/"
         THEN split(Tail(str), <<>>, Append(acc, cur))
         ELSE split(Tail(str), Append(cur, Head(str)), acc)

\* path normalisation: empty segments and "." are dropped, ".." removes the
\* segment before it and is dropped at the root
RECURSIVE normalize(_, _)
normalize(segs, acc) ==
    IF segs = <<>>
    THEN acc
    ELSE LET sg == Head(segs)
         IN  IF sg = <<>> \/ sg = <<".">>
             THEN normalize(Tail(segs), acc)
             ELSE IF sg = <<".", ".">>
                  THEN normalize(Tail(segs),
                                 IF acc = <<>> THEN acc
                                 ELSE SubSeq(acc, 1, Len(acc) - 1))
                  ELSE normalize(Tail(segs), Append(acc, sg))

RECURSIVE joinSegs(_)
joinSegs(segs) ==
    IF segs = <<>> THEN <<>> ELSE <<"/">> \o Head(segs) \o joinSegs(Tail(segs))

\* path.resolve of one argument: a relative path is taken from the working
\* directory; the result is absolute, normalised, without trailing separator
resolve(dirPath) ==
    LET abs  == IF dirPath # <<>> /\ Head(dirPath) = "/"
                THEN dirPath
                ELSE Cwd \o <<"/">> \o dirPath
        segs == normalize(split(abs, <<>>, <<>>), <<>>)
    IN  IF segs = <<>> THEN <<"/">> ELSE joinSegs(segs)

\* fs.rmSync(target, {recursive, force}): the directory and everything below
\* it are gone; a missing target is no error
rmSync(dirs, target) ==
    LET ts == normalize(split(target, <<>>, <<>>), <<>>)
    IN  {d \in dirs :
           LET ds == normalize(split(d, <<>>, <<>>), <<>>)
           IN  ~(Len(ts) <= Len(ds) /\ SubSeq(ds, 1, Len(ts)) = ts)}

\* ContentFileManager.deleteFolder: the directories left, and whether it threw
deleteFolder(dirs, root, dirPath) ==
    LET resolvedPath == resolve(dirPath)
    IN  IF ~startsWith(resolvedPath, root)
        THEN [folders |-> dirs, threw |-> TRUE]
        ELSE [folders |-> rmSync(dirs, resolvedPath), threw |-> FALSE]

\* the directories of the file system the file manager works on
Disk ==
    { <<"/", "r">>, <<"/", "r", "/", "x">>, <<"/", "r", "x">>,
      <<"/", "r", "x", "/", "x">>, <<"/", "q">> }

FileInit ==
    /\ ROOT_DIR = resolve(Cwd)
    /\ folders = Disk

----------------------------------------------------------------------------
(* RESTComponent: the cached JWT *)

\* a JWT: the number of its dot-separated parts and the exp claim of its
\* payload in seconds (num: the claim is there and is a number); def is
\* false for undefined
Undefined == [def |-> FALSE, parts |-> 0, num |-> FALSE, exp |-> 0]

\* RESTComponent.JWT_REFRESH_OFFSET_MS
JWT_REFRESH_OFFSET_MS == 60000

\* parseJwtExp reading the exp claim as milliseconds.
parseJwtExpSeconds(token) ==
    IF token.parts < 3 \/ ~token.num
    THEN [def |-> FALSE, n |-> 0]
    ELSE [def |-> TRUE, n |-> token.exp]

\* parseJwtExp: the expiry in epoch milliseconds, or undefined when the
\* token has fewer than three parts or no numeric exp claim
parseJwtExp(token) ==
    IF token.parts < 3 \/ ~token.num
    THEN [def |-> FALSE, n |-> 0]
    ELSE [def |-> TRUE, n |-> token.exp * 1000]

\* isJwtExpired at time t; `!expMs` holds for undefined and for 0
isJwtExpired(token, t) ==
    LET expMs == parseJwtExp(token)
    IN  IF ~expMs.def \/ expMs.n = 0
        THEN FALSE
        ELSE t + JWT_REFRESH_OFFSET_MS >= expMs.n

\* getJwt with username/password auth up to its first await: the cached
\* token is returned, or the login call is issued
getJwt(cached, t) ==
    IF cached.def /\ ~isJwtExpired(cached, t)
    THEN [post |-> FALSE, token |-> cached]
    ELSE [post |-> TRUE, token |-> Undefined]

\* getJwt after the login call has answered with access_token: the token is
\* cached, then tested; isJwtExpired(undefined) throws a TypeError
getJwtResume(accessToken, t) ==
    [cached |-> accessToken,
     threw  |-> ~accessToken.def \/ isJwtExpired(accessToken, t)]

RestInit ==
    /\ cachedJwt = Undefined
    /\ now = 0
    /\ posts = <<>>

----------------------------------------------------------------------------
(* BaseContentComponent and ContentBuilder: post-processing *)

\* Content is a string, written as the sequence of its pieces; " " is white
\* space and "\n\n" the separator of compose().

\* String.prototype.trim
RECURSIVE trimStart(_)
trimStart(str) ==
    IF str # <<>> /\ Head(str) = " " THEN trimStart(Tail(str)) ELSE str

RECURSIVE trimEnd(_)
trimEnd(str) ==
    IF str # <<>> /\ str[Len(str)] = " "
    THEN trimEnd(SubSeq(str, 1, Len(str) - 1))
    ELSE str

trim(str) == trimEnd(trimStart(str))

\* Array.prototype.join
RECURSIVE join(_, _)
join(parts, sep) ==
    IF parts = <<>> THEN <<>>
    ELSE IF Len(parts) = 1 THEN Head(parts)
         ELSE Head(parts) \o sep \o join(Tail(parts), sep)

\* the string compose() builds from the start text, the parts of the
\* components and the end text
composeParts(startContent, componentParts, endContent) ==
    LET p1 == IF trim(startContent) # <<>> THEN <<startContent>> ELSE <<>>
        p2 == IF Len(componentParts) > 0
              THEN <<join(componentParts, <<"\n\n">>)>> ELSE <<>>
        p3 == IF trim(endContent) # <<>> THEN <<endContent>> ELSE <<>>
    IN  join(p1 \o p2 \o p3, <<"\n\n">>)

\* the part of one component in compose()
componentPart(description, content) ==
    IF Len(trim(description)) > 0
    THEN description \o <<"\n\n">> \o content
    ELSE content

\* postProcess(...processors): push
postProcess(list, processors) == list \o processors

\* A post-processor marks the content it is given: its output tells which
\* processors ran on it and in which order.
runProcessor(processor, content) == Append(content, processor)

\* the loop taking the processors from the end of the list.
nextProcessorReverse(list, idx) == list[Len(list) - idx]

\* `for (const processor of this.postProcessors)`: the processor of the
\* iteration that follows idx finished ones; the list is read at each
\* iteration
nextProcessor(list, idx) == list[idx + 1]

PipeInit ==
    /\ postProcessors = [component |-> <<>>, builder |-> <<>>]
    /\ runs = <<>>

----------------------------------------------------------------------------
(* Turns *)

NoMicrotask ==
    /\ resumes = 0
    /\ \A i \in 1..Len(calls) : calls[i].pc = "pending"

\* Take the closures called in a turn, in the order of their calls, out of
\* the list of accepted ones; pos is 1 when each of them was the oldest one
\* left, and otherwise the position of the first that was not (0: absent).
RECURSIVE runOrder(_, _, _)
runOrder(o, ran, pos) ==
    IF ran = <<>>
    THEN [order |-> o, pos |-> pos]
    ELSE LET p == IndexOf(o, Head(ran))
         IN  runOrder(IF p = 0 THEN o ELSE RemoveAt(o, p), Tail(ran),
                      IF pos = 1 THEN p ELSE pos)

\* Store the fields after a turn and record the turn; `acc` is the job whose
\* dispatch the turn accepted (0 when none).
Commit(h, op, j, res, acc, ret) ==
    LET o1 == IF acc # 0 THEN Append(order, acc) ELSE order
        r  == runOrder(o1, h.ran, 1)
        p  == IF h.invoked = 0 THEN 0 ELSE r.pos
    IN  /\ jobStates' = h.jobStates
        /\ script' = h.script
        /\ rejected' = h.rejected
        /\ queue' = h.queue
        /\ isProcessing' = h.isProcessing
        /\ calls' = h.calls
        /\ resumes' = h.resumes
        /\ escaped' = h.escaped
        /\ order' = r.order
        /\ lastOp' = [op |-> op, job |-> j, res |-> res, invoked |-> h.invoked,
                      out |-> h.out, pos |-> p, n |-> 0, ret |-> ret]

Init ==
    /\ jobs \in JobLists
    /\ executionMode \in ExecutionMode
    /\ timers = <<>>
    /\ jobStates = initStates(jobs, <<>>)
    /\ queue = <<>>
    /\ isProcessing = FALSE
    /\ calls = <<>>
    /\ resumes = 0
    /\ escaped = FALSE
    /\ script = <<>>
    /\ rejected = FALSE
    /\ sinceStop = 0
    /\ nStarts = 0
    /\ phase = "new"
    /\ order = <<>>
    /\ lastOp = NoOp
    /\ FileInit
    /\ RestInit
    /\ PipeInit

\* start() that also dispatches the first job at once instead of waiting for
\* its timer.
StartRunsNow ==
    /\ nStarts < MaxStarts
    /\ LET r == start(timers, 1)
       IN  /\ timers' = r.timers
           /\ \E out \in ExecOutcome :
                 LET h == executeJob(Heap, 1, out)
                 IN  Commit(h, "start", 0,
                            IF r.threw THEN "threw" ELSE "returned",
                            IF h # Heap THEN 1 ELSE 0, <<>>)
    /\ nStarts' = nStarts + 1
    /\ sinceStop' = sinceStop + 1
    /\ phase' = "started"
    /\ UNCHANGED <<fileVars, restVars, pipeVars>>
    /\ UNCHANGED <<jobs, executionMode>>

Start ==
    /\ nStarts < MaxStarts
    /\ LET r == start(timers, 1)
       IN  /\ timers' = r.timers
           /\ lastOp' = [NoOp EXCEPT !.op = "start",
                            !.res = IF r.threw THEN "threw" ELSE "returned"]
    /\ nStarts' = nStarts + 1
    /\ sinceStop' = sinceStop + 1
    /\ phase' = "started"
    /\ UNCHANGED <<fileVars, restVars, pipeVars>>
    /\ UNCHANGED <<jobs, executionMode, jobStates, queue, isProcessing, calls,
                   resumes, escaped, script, rejected, order>>

\* stop() that also sets every flag back to false.
StopResetsFlags ==
    /\ timers' = stop(timers)
    /\ jobStates' = initStates(jobs, <<>>)
    /\ phase' = "stopped"
    /\ lastOp' = [NoOp EXCEPT !.op = "stop", !.res = "returned",
                 !.n = Cardinality({t \in 1..Len(timers) : ~timers[t].cleared})]
    /\ sinceStop' = 0
    /\ UNCHANGED <<fileVars, restVars, pipeVars>>
    /\ UNCHANGED <<jobs, executionMode, queue, isProcessing, calls,
                   resumes, escaped, script, rejected, nStarts, order>>

\* stop() that also empties the queue.
StopDropsQueue ==
    /\ timers' = stop(timers)
    /\ queue' = <<>>
    /\ phase' = "stopped"
    /\ lastOp' = [NoOp EXCEPT !.op = "stop", !.res = "returned",
                 !.n = Cardinality({t \in 1..Len(timers) : ~timers[t].cleared})]
    /\ sinceStop' = 0
    /\ UNCHANGED <<fileVars, restVars, pipeVars>>
    /\ UNCHANGED <<jobs, executionMode, jobStates, isProcessing, calls,
                   resumes, escaped, script, rejected, nStarts, order>>

Stop ==
    /\ timers' = stop(timers)
    /\ phase' = "stopped"
    /\ lastOp' = [NoOp EXCEPT !.op = "stop", !.res = "returned",
                 !.n = Cardinality({t \in 1..Len(timers) : ~timers[t].cleared})]
    /\ sinceStop' = 0
    /\ UNCHANGED <<fileVars, restVars, pipeVars>>
    /\ UNCHANGED <<jobs, executionMode, jobStates, queue, isProcessing, calls,
                   resumes, escaped, script, rejected, nStarts, order>>

\* The callback of timer t fires.
Tick(t) ==
    /\ t \in 1..Len(timers)
    /\ ~timers[t].cleared
    /\ NoMicrotask
    /\ LET j == timers[t].job
       IN  \E out \in ExecOutcome :
               LET h   == executeJob(Heap, j, out)
                   acc == h # Heap
               IN  Commit(h, "tick", j, IF acc THEN "accepted" ELSE "dropped",
                          IF acc THEN j ELSE 0, <<>>)
    /\ UNCHANGED <<fileVars, restVars, pipeVars>>
    /\ UNCHANGED <<jobs, executionMode, timers, sinceStop, nStarts, phase>>

\* The promise returned by job.execute() settles.
Settle(i) ==
    /\ i \in 1..Len(calls)
    /\ calls[i].pc = "pending"
    /\ \E oc \in {"resolved", "rejected"} :
          /\ calls' = [calls EXCEPT ![i].pc = oc]
          /\ lastOp' = [NoOp EXCEPT !.op = "settle", !.job = calls[i].job,
                                    !.res = oc]
    /\ UNCHANGED <<fileVars, restVars, pipeVars>>
    /\ UNCHANGED <<jobs, executionMode, timers, jobStates, queue, isProcessing,
                   resumes, escaped, script, rejected, sinceStop, nStarts,
                   phase, order>>

\* The continuation of the task closure runs.
TaskResume(i) ==
    /\ i \in 1..Len(calls)
    /\ calls[i].pc \in {"resolved", "rejected"}
    /\ Commit(taskResume(Heap, i), "taskDone", calls[i].job, calls[i].pc, 0, <<>>)
    /\ UNCHANGED <<fileVars, restVars, pipeVars>>
    /\ UNCHANGED <<jobs, executionMode, timers, sinceStop, nStarts, phase>>

\* The continuation of processQueue after `await task()` runs.
ProcessQueueResume ==
    /\ resumes > 0
    /\ \E out \in ExecOutcome :
          Commit(processQueueResume(Heap, out), "drain", 0,
                 IF rejected THEN "caught" ELSE "", 0, <<>>)
    /\ UNCHANGED <<fileVars, restVars, pipeVars>>
    /\ UNCHANGED <<jobs, executionMode, timers, sinceStop, nStarts, phase>>

GetActiveJobs ==
    /\ lastOp' = [NoOp EXCEPT !.op = "getActiveJobs", !.res = "returned",
                              !.ret = getActiveJobs(jobStates)]
    /\ UNCHANGED <<fileVars, restVars, pipeVars>>
    /\ UNCHANGED <<jobs, executionMode, timers, jobStates, queue, isProcessing,
                   calls, resumes, escaped, script, rejected, sinceStop,
                   nStarts, phase, order>>

Next ==
    \/ Start
    \/ Stop
    \/ \E t \in 1..Len(timers) : Tick(t)
    \/ \E i \in 1..Len(calls) : Settle(i)
    \/ \E i \in 1..Len(calls) : TaskResume(i)
    \/ ProcessQueueResume
    \/ GetActiveJobs

Spec == Init /\ [][Next]_vars

----------------------------------------------------------------------------
(* Properties *)

JobIds == 1..3

IsJob(j) == j \in 1..Len(jobs)

NamesUnique ==
    \A i, k \in 1..Len(jobs) : jobs[i].name = jobs[k].name => i = k

\* closures of job j suspended in execute() or in their continuation
Running(j) == {i \in 1..Len(calls) : calls[i].job = j}

\* closures of job j waiting in the queue
Queued(j) == {i \in 1..Len(queue) : queue[i] = j}

\* accepted dispatches of job j whose task closure has not finished
InFlight(j) == Cardinality(Running(j)) + Cardinality(Queued(j))

InFlightName(nm) ==
    \E j \in 1..Len(jobs) : jobs[j].name = nm /\ InFlight(j) > 0

Armed(j) == \E t \in 1..Len(timers) : timers[t].job = j /\ ~timers[t].cleared

ArmedCount(j) ==
    Cardinality({t \in 1..Len(timers) : timers[t].job = j /\ ~timers[t].cleared})

\* C1: at no time does a job, or a job name, have more than one accepted
\* dispatch that is queued, executing or finishing, whatever the number of
\* timers armed for it.
C1_NoSelfOverlap ==
    /\ \A j \in 1..Len(jobs) : InFlight(j) <= 1
    /\ \A j, k \in 1..Len(jobs) :
          (jobs[j].name = jobs[k].name /\ j # k) => InFlight(j) + InFlight(k) <= 1

\* a tick of a job with two armed timers was dropped while the job is in flight
C1_Witness ==
    /\ lastOp.op = "tick" /\ lastOp.res = "dropped"
    /\ InFlight(lastOp.job) = 1
    /\ ArmedCount(lastOp.job) = 2

\* C2: in both modes the flag of a name is true exactly while an accepted
\* dispatch of that name is queued, executing or running its continuation;
\* where a timer callback can run, that is exactly while one is queued or
\* its execute() has not settled.
C2_FlagExact ==
    /\ \A e \in 1..Len(jobStates) :
          jobStates[e].val = InFlightName(jobStates[e].key)
    /\ NoMicrotask =>
          \A j \in 1..Len(jobs) :
              MapGet(jobStates, jobs[j].name) =
                 \E k \in 1..Len(jobs) :
                    /\ jobs[k].name = jobs[j].name
                    /\ \/ Queued(k) # {}
                       \/ \E i \in Running(k) : calls[i].pc = "pending"

\* sequential mode: the flags of two jobs are true while they wait in the
\* queue behind a third one whose execute() has settled
C2_Witness ==
    /\ executionMode = "sequential"
    /\ Len(queue) = 2 /\ Len(calls) = 1 /\ calls[1].pc # "pending"
    /\ \A j \in 1..Len(jobs) : MapGet(jobStates, jobs[j].name)

\* C3: in sequential mode at most one task closure, of whatever job, is
\* between the call of its execute() and the end of its continuation.
C3_OneAtATime ==
    executionMode = "sequential" => Len(calls) <= 1

\* one execute() is in progress while two other jobs wait in the queue
C3_Witness ==
    /\ executionMode = "sequential"
    /\ Len(calls) = 1 /\ calls[1].pc = "pending"
    /\ Len(queue) = 2

\* C4: in sequential mode every execute() that is called belongs to the
\* oldest accepted dispatch that has not been run yet.
C4_FifoOrder ==
    (executionMode = "sequential" /\ lastOp.invoked # 0) => lastOp.pos = 1

\* the drain loop started a job while a later accepted one is still waiting
C4_Witness ==
    /\ executionMode = "sequential"
    /\ lastOp.op = "drain" /\ lastOp.invoked # 0 /\ lastOp.pos = 1
    /\ Len(order) >= 1

\* C5: from stop() until the next start() no timer is armed and no timer
\* callback runs, however many start() calls came before the stop().
C5_StopHaltsTicks ==
    phase = "stopped" =>
        /\ \A t \in 1..Len(timers) : timers[t].cleared
        /\ lastOp.op # "tick"

\* stop() has just cancelled the timers of two start() calls
C5_Witness ==
    /\ phase = "stopped"
    /\ lastOp.op = "stop" /\ lastOp.n = 2 * Len(jobs)
    /\ \A t \in 1..Len(timers) : timers[t].cleared

----------------------------------------------------------------------------
(* Behaviours in which timers keep firing and every job body ends *)

CallIds == 1..3

\* some timer armed for job j fires
TickOf(j) == \E t \in 1..Len(timers) : timers[t].job = j /\ Tick(t)

\* The timer subsystem fires the armed interval timers of every job again
\* and again; promise continuations are run by the event loop; every
\* pending execute() eventually settles.
Fairness ==
    /\ \A j \in JobIds : SF_vars(TickOf(j))
    /\ \A i \in CallIds : WF_vars(Settle(i)) /\ WF_vars(TaskResume(i))
    /\ WF_vars(ProcessQueueResume)

LiveSpec == Init /\ [][Next]_vars /\ Fairness

\* C6: stop() writes nothing but the timer handles; a closure leaves the
\* queue only by being run; and every dispatch that is queued or executing
\* while the scheduler is stopped finishes, leaving its flag false.
C6_StopKeepsAcceptedWork ==
    /\ [][ /\ lastOp'.op = "stop" =>
                UNCHANGED <<jobStates, queue, isProcessing, calls, resumes>>
           /\ Len(queue') < Len(queue) =>
                (queue' = Tail(queue) /\ lastOp'.invoked = Head(queue))
         ]_vars
    /\ \A j \in JobIds :
          (phase = "stopped" /\ IsJob(j) /\ InFlight(j) > 0)
             ~> (IsJob(j) /\ InFlight(j) = 0 /\ ~MapGet(jobStates, jobs[j].name))

\* after stop() the drain loop calls the execute() of a job that was queued
\* while another job still waits behind it
C6_Witness ==
    /\ phase = "stopped"
    /\ lastOp.op = "drain" /\ lastOp.invoked # 0
    /\ Len(queue) >= 1

\* the job whose execute() has thrown or rejected in the turn just taken
FailedJob ==
    IF lastOp.op = "taskDone" /\ lastOp.res = "rejected" THEN lastOp.job
    ELSE IF lastOp.out = "throws" THEN lastOp.invoked
    ELSE 0

\* C7: no error leaves the task closure; the turn in which a throw or a
\* rejection of execute() is handled ends with the flag of that job false;
\* and a tick of a job whose flag is false is accepted, its execute() being
\* called in the tick or its closure queued.
C7_FaultIsolation ==
    [][ /\ ~escaped'
        /\ FailedJob' # 0 => ~MapGet(jobStates', jobs[FailedJob'].name)
        /\ (lastOp'.op = "tick" /\ ~MapGet(jobStates, jobs[lastOp'.job].name))
              => /\ lastOp'.res = "accepted"
                 /\ \/ lastOp'.invoked = lastOp'.job
                    \/ \E q \in 1..Len(queue') : queue'[q] = lastOp'.job
      ]_vars

\* a rejection has just been handled by the closure and the flag is false
C7_Witness ==
    /\ lastOp.op = "taskDone" /\ lastOp.res = "rejected"
    /\ ~MapGet(jobStates, jobs[lastOp.job].name)
    /\ ~escaped

\* C8: with unique job names, a job whose timer stays armed from some point
\* on has its execute() called infinitely many times, in both modes.
C8_InvokedForever ==
    \A j \in JobIds :
        <>[](NamesUnique /\ IsJob(j) /\ Armed(j))
            => ([]<>(lastOp.invoked = j) /\ []<>(lastOp.invoked # j))

\* a job with an armed timer is called from the drain loop in sequential mode
C8_Witness ==
    /\ executionMode = "sequential" /\ NamesUnique /\ phase = "started"
    /\ lastOp.op = "drain" /\ lastOp.invoked # 0 /\ Armed(lastOp.invoked)

\* C9: getActiveJobs() returns each name whose flag is true once and no
\* other name, and writes no field.
C9_ActiveJobsExact ==
    [][lastOp'.op = "getActiveJobs" =>
          /\ UNCHANGED <<jobs, executionMode, timers, jobStates, queue,
                         isProcessing, calls, resumes, escaped>>
          /\ \A a, b \in 1..Len(lastOp'.ret) :
                lastOp'.ret[a] = lastOp'.ret[b] => a = b
          /\ {lastOp'.ret[a] : a \in 1..Len(lastOp'.ret)} =
                {jobs[j].name : j \in {k \in 1..Len(jobs) :
                                         MapGet(jobStates, jobs[k].name)}}
    ]_vars

\* sequential mode: two of three names are returned, one of them queued
C9_Witness ==
    /\ lastOp.op = "getActiveJobs" /\ Len(lastOp.ret) = 2
    /\ executionMode = "sequential" /\ Len(queue) = 1 /\ Len(jobStates) = 3

\* the interval of job j ends in a character other than m, h or d
BadUnit(j) ==
    LET iv == jobs[j].interval
    IN  Len(iv) = 0 \/ iv[Len(iv)] \notin {"m", "h", "d"}

\* C10: start() throws exactly when some job has an unknown unit, and no
\* timer is ever armed for such a job.
C10_StartThrows ==
    /\ lastOp.op = "start" =>
          (lastOp.res = "threw" <=> \E j \in 1..Len(jobs) : BadUnit(j))
    /\ \A t \in 1..Len(timers) : ~BadUnit(timers[t].job)

\* start() has thrown on a list with an unknown unit
C10_Witness ==
    /\ lastOp.op = "start" /\ lastOp.res = "threw"
    /\ \E j \in 1..Len(jobs) : BadUnit(j)

----------------------------------------------------------------------------
(* Interval conversion *)

\* The tokens of IntervalString.
IntervalString ==
    { <<"1", "m">>, <<"5", "m">>, <<"1", "5", "m">>,
      <<"1", "h">>, <<"4", "h">>, <<"1", "d">> }

\* The period in milliseconds stated for each token.
StatedMs(tok) ==
    CASE tok = <<"1", "m">>      -> 60000
      [] tok = <<"5", "m">>      -> 300000
      [] tok = <<"1", "5", "m">> -> 900000
      [] tok = <<"1", "h">>      -> 3600000
      [] tok = <<"4", "h">>      -> 14400000
      [] tok = <<"1", "d">>      -> 86400000

\* C11: every token of IntervalString converts to its stated number of
\* milliseconds, and every timer handle of a job carries the stated period
\* of the job's interval.
C11_IntervalMs ==
    /\ \A tok \in IntervalString :
          convertIntervalToMs(tok) =
             [threw |-> FALSE, ms |-> [nan |-> FALSE, n |-> StatedMs(tok)]]
    /\ \A t \in 1..Len(timers) :
          /\ jobs[timers[t].job].interval \in IntervalString
          /\ ~timers[t].ms.nan
          /\ timers[t].ms.n = StatedMs(jobs[timers[t].job].interval)

\* timers of a 5m and of a 15m job are armed with 300000 and 900000
C11_Witness ==
    /\ Len(timers) >= 2
    /\ timers[1].ms.n = 300000 /\ timers[2].ms.n = 900000
    /\ ~timers[1].cleared /\ ~timers[2].cleared

----------------------------------------------------------------------------
(* A TaskQueue used on its own: callers hand closures to add() *)

MaxAdds == 3

QueueInit ==
    /\ jobs = <<>>
    /\ executionMode = "sequential"
    /\ timers = <<>>
    /\ jobStates = <<>>
    /\ queue = <<>>
    /\ isProcessing = FALSE
    /\ calls = <<>>
    /\ resumes = 0
    /\ escaped = FALSE
    /\ script = <<>>
    /\ rejected = FALSE
    /\ sinceStop = 0
    /\ nStarts = 0
    /\ phase = "new"
    /\ order = <<>>
    /\ lastOp = NoOp
    /\ FileInit
    /\ RestInit
    /\ PipeInit

\* A caller, which may be code of a task that is running, calls add() with
\* a new closure that will do b when it is called.
Add(b) ==
    /\ Len(script) < MaxAdds
    /\ LET x == Len(jobs) + Len(script) + 1
       IN  Commit(add([Heap EXCEPT !.script = Append(@, b)], x, "pending"),
                  "add", x, "returned", x, <<>>)
    /\ UNCHANGED <<fileVars, restVars, pipeVars>>
    /\ UNCHANGED <<jobs, executionMode, timers, sinceStop, nStarts, phase>>

\* The promise returned by a closure of a direct caller settles: the
\* processQueue activation that awaits it can go on.
PlainSettle(i) ==
    /\ i \in 1..Len(calls)
    /\ calls[i].job \notin 1..Len(jobs)
    /\ calls[i].pc = "pending"
    /\ \E oc \in {"resolved", "rejected"} :
          /\ calls' = RemoveAt(calls, i)
          /\ resumes' = resumes + 1
          /\ rejected' = (oc = "rejected")
          /\ lastOp' = [NoOp EXCEPT !.op = "settle", !.job = calls[i].job,
                                    !.res = oc]
    /\ UNCHANGED <<fileVars, restVars, pipeVars>>
    /\ UNCHANGED <<jobs, executionMode, timers, jobStates, queue, isProcessing,
                   escaped, script, sinceStop, nStarts, phase, order>>

QueueNext ==
    \/ \E b \in ExecOutcome : Add(b)
    \/ \E i \in 1..Len(calls) : PlainSettle(i)
    \/ ProcessQueueResume

QueueSpec == QueueInit /\ [][QueueNext]_vars

\* processQueue activations that are suspended or about to go on
DrainLoops ==
    Cardinality({i \in 1..Len(calls) : calls[i].awaited}) + resumes

\* C12: no error leaves processQueue; while a task waits in the queue an
\* activation of the loop is alive; and the turn that catches a rejection
\* calls the oldest waiting task, or ends the loop on an empty queue.
C12_QueueSurvivesFailure ==
    /\ ~escaped
    /\ lastOp.op = "add" => lastOp.res = "returned"
    /\ Len(queue) > 0 => (isProcessing /\ DrainLoops = 1)
    /\ (lastOp.op = "drain" /\ lastOp.res = "caught") =>
          \/ lastOp.invoked # 0 /\ lastOp.pos = 1
          \/ queue = <<>> /\ order = <<>> /\ ~isProcessing

\* the loop has caught the rejection of the first task and called the
\* second while the third waits
C12_Witness ==
    /\ lastOp.op = "drain" /\ lastOp.res = "caught"
    /\ script[1] = "rejected"
    /\ lastOp.invoked = 2 /\ lastOp.pos = 1
    /\ queue = <<3>>

\* C13: each closure called is the oldest one added and not yet called;
\* the closures added and not yet called are exactly those waiting in the
\* queue, in the order of their add(); and the loop is idle only when none
\* waits, so each one is called once the ones ahead of it have completed.
C13_ExactlyOnceInOrder ==
    /\ lastOp.invoked # 0 => lastOp.pos = 1
    /\ order = queue
    /\ \A a, b \in 1..Len(queue) : a < b => queue[a] < queue[b]
    /\ ~isProcessing => (queue = <<>> /\ calls = <<>> /\ resumes = 0)
    /\ Len(queue) > 0 => DrainLoops = 1

\* the loop, finishing the second task, calls the third, which was added
\* while the loop was draining
C13_Witness ==
    /\ lastOp.op = "drain" /\ lastOp.invoked = 3 /\ lastOp.pos = 1
    /\ Len(script) = 3 /\ queue = <<>> /\ order = <<>>

\* C14: at most one activation of the loop is alive, and isProcessing tells
\* whether one is; at most one closure is being awaited; an add() made while
\* isProcessing is set appends the closure and does nothing else.
C14_OneDrainLoop ==
    [][ /\ DrainLoops' <= 1
        /\ isProcessing' = (DrainLoops' = 1)
        /\ Len(calls') <= 1
        /\ (lastOp'.op = "add" /\ isProcessing) =>
              /\ queue' = Append(queue, lastOp'.job)
              /\ lastOp'.invoked = 0
              /\ UNCHANGED <<calls, resumes, isProcessing>>
      ]_vars

\* add() was called while a task was being awaited and another was waiting
C14_Witness ==
    /\ lastOp.op = "add" /\ lastOp.invoked = 0
    /\ Len(calls) = 1 /\ Len(queue) = 2 /\ isProcessing

----------------------------------------------------------------------------
(* Ticks that meet work in progress *)

\* Behaviours in which every job body ends and the event loop runs every
\* promise continuation, whatever the timers do.
Completion ==
    /\ \A i \in CallIds : WF_vars(Settle(i)) /\ WF_vars(TaskResume(i))
    /\ WF_vars(ProcessQueueResume)

EndingSpec == Init /\ [][Next]_vars /\ Completion

\* sequential mode, and exactly one execute() is in progress
SeqBusy ==
    /\ executionMode = "sequential"
    /\ Len(calls) = 1 /\ calls[1].pc = "pending"

C16_DroppedTickNoEffect ==
    [][(lastOp'.op = "tick" /\ MapGet(jobStates, jobs[lastOp'.job].name)) =>
          /\ lastOp'.res = "dropped"
          /\ lastOp'.invoked = 0
          /\ UNCHANGED <<jobs, executionMode, timers, jobStates, queue,
                         isProcessing, calls, resumes, escaped, script,
                         rejected>>
    ]_vars

\* sequential mode: a tick of a job that waits in the queue was dropped
C16_Witness ==
    /\ executionMode = "sequential"
    /\ lastOp.op = "tick" /\ lastOp.res = "dropped"
    /\ Queued(lastOp.job) # {}
    /\ MapGet(jobStates, jobs[lastOp.job].name)

\* C17: in parallel mode a tick of a job whose flag is not set calls that
\* job's execute() inside the tick, whatever the flags of the other jobs.
C17_ParallelImmediate ==
    [][(executionMode = "parallel" /\ lastOp'.op = "tick"
          /\ ~MapGet(jobStates, jobs[lastOp'.job].name)) =>
          /\ lastOp'.res = "accepted"
          /\ lastOp'.invoked = lastOp'.job
          /\ queue' = <<>> /\ ~isProcessing'
          /\ \A i \in 1..Len(calls) : calls'[i] = calls[i]
    ]_vars

\* a tick has called execute() of a third job while two others are executing
C17_Witness ==
    /\ executionMode = "parallel"
    /\ lastOp.op = "tick" /\ lastOp.res = "accepted"
    /\ lastOp.invoked = lastOp.job
    /\ Len(calls) = 3
    /\ \A i \in 1..3 : calls[i].pc = "pending"

----------------------------------------------------------------------------
(* Behaviours in which a job body hangs *)

\* The jobs of this name have an execute() whose pending promise never
\* settles (no timeout is imposed on execute()).
HangName == "a"

\* The promise of an execute() that does complete settles.
SettleOthers(i) ==
    /\ i \in 1..Len(calls)
    /\ jobs[calls[i].job].name # HangName
    /\ Settle(i)

HangNext ==
    \/ Start
    \/ Stop
    \/ \E t \in 1..Len(timers) : Tick(t)
    \/ \E i \in 1..Len(calls) : SettleOthers(i)
    \/ \E i \in 1..Len(calls) : TaskResume(i)
    \/ ProcessQueueResume
    \/ GetActiveJobs

HangSpec == Init /\ [][HangNext]_vars

\* job j is suspended in an execute() call that never completes
Hangs(j) ==
    /\ IsJob(j)
    /\ jobs[j].name = HangName
    /\ \E i \in Running(j) : calls[i].pc = "pending"

\* C18: in sequential mode, once an execute() call that never completes has
\* been started, the call stays pending and no step calls an execute(); a
\* tick of another job is accepted only while that job's flag is false, and
\* puts it in the queue with its flag set; a queued job stays queued with its
\* flag set and each of its ticks is dropped.
C18_HeadOfLineBlocking ==
    [][(executionMode = "sequential" /\ \E h \in JobIds : Hangs(h)) =>
          /\ \E h \in JobIds : Hangs(h)'
          /\ lastOp'.invoked = 0
          /\ \A j \in 1..Len(jobs) :
                /\ (lastOp'.op = "tick" /\ lastOp'.job = j
                      /\ lastOp'.res = "accepted") =>
                      /\ ~MapGet(jobStates, jobs[j].name)
                      /\ Queued(j) = {}
                      /\ queue' = Append(queue, j)
                /\ Queued(j) # {} =>
                      /\ Queued(j)' = Queued(j)
                      /\ MapGet(jobStates', jobs[j].name)
                      /\ (lastOp'.op = "tick" /\ lastOp'.job = j) =>
                            lastOp'.res = "dropped"
    ]_vars

\* behind a hanging call two other jobs wait in the queue, and a further
\* tick of one of them was dropped
C18_Witness ==
    /\ executionMode = "sequential"
    /\ \E h \in JobIds : Hangs(h)
    /\ Len(queue) = 2
    /\ lastOp.op = "tick" /\ lastOp.res = "dropped"
    /\ Queued(lastOp.job) # {}

\* C19: in parallel mode, a job suspended in an execute() call that never
\* completes stays so with its flag set; every tick of that job is dropped
\* and no step calls its execute().
C19_ParallelHangPinsFlag ==
    [][\A j \in JobIds :
          (executionMode = "parallel" /\ Hangs(j)) =>
             /\ Hangs(j)'
             /\ MapGet(jobStates', jobs[j].name)
             /\ lastOp'.invoked # j
             /\ (lastOp'.op = "tick" /\ lastOp'.job = j) =>
                   (lastOp'.res = "dropped" /\ calls' = calls)
    ]_vars

\* a tick of the hanging job was dropped after a stop() and a second start()
C19_Witness ==
    /\ executionMode = "parallel"
    /\ lastOp.op = "tick" /\ lastOp.res = "dropped"
    /\ Hangs(lastOp.job)
    /\ nStarts = 2 /\ sinceStop = 1
    /\ Len(calls) = 1
    /\ Len(jobs) = 3

----------------------------------------------------------------------------
(* Repeated start() *)

\* C20: for a job list whose intervals all have a known unit, a start() call
\* appends one armed timer per entry, in list order, and leaves the timers
\* it finds as they are; after k start() calls since construction or since
\* the last stop(), every job has k armed timers, each with the job's
\* period, and each of them can fire.
C20_StartArmsAgain ==
    /\ []((\A i \in 1..Len(jobs) : ~BadUnit(i)) =>
            \A j \in 1..Len(jobs) :
               /\ ArmedCount(j) = sinceStop
               /\ \A t \in 1..Len(timers) :
                     (timers[t].job = j /\ ~timers[t].cleared) =>
                        /\ timers[t].ms = convertIntervalToMs(jobs[j].interval).ms
                        /\ NoMicrotask => ENABLED Tick(t))
    /\ [][(lastOp'.op = "start" /\ \A i \in 1..Len(jobs) : ~BadUnit(i)) =>
            /\ lastOp'.res = "returned"
            /\ Len(timers') = Len(timers) + Len(jobs)
            /\ \A t \in 1..Len(timers) : timers'[t] = timers[t]
            /\ \A i \in 1..Len(jobs) :
                  /\ timers'[Len(timers) + i].job = i
                  /\ ~timers'[Len(timers) + i].cleared
         ]_vars

\* a second start() without a stop() has left two armed timers for each of
\* three jobs
C20_Witness ==
    /\ lastOp.op = "start" /\ lastOp.res = "returned"
    /\ sinceStop = 2
    /\ Len(jobs) = 3
    /\ \A j \in 1..Len(jobs) : ArmedCount(j) = 2

----------------------------------------------------------------------------
(* The job-state map *)

JobNames == {jobs[j].name : j \in 1..Len(jobs)}

\* C21: jobStates holds one entry for each job name and no other entry, all
\* false after construction; a flag goes from false to true only in a tick
\* that accepts a dispatch of that name, and from true to false only when a
\* closure of that name finishes, after its execute() has settled or has
\* thrown; start(), stop(), getActiveJobs() and dropped ticks write no flag.
C21_FlagWriters ==
    /\ [](/\ {jobStates[e].key : e \in 1..Len(jobStates)} = JobNames
          /\ Len(jobStates) = Cardinality(JobNames)
          /\ phase = "new" => \A e \in 1..Len(jobStates) : ~jobStates[e].val)
    /\ [][/\ \A nm \in JobNames :
                /\ (~MapGet(jobStates, nm) /\ MapGet(jobStates', nm)) =>
                      /\ lastOp'.op = "tick" /\ lastOp'.res = "accepted"
                      /\ jobs[lastOp'.job].name = nm
                /\ (MapGet(jobStates, nm) /\ ~MapGet(jobStates', nm)) =>
                      \/ /\ lastOp'.op = "taskDone"
                         /\ jobs[lastOp'.job].name = nm
                      \/ /\ lastOp'.op = "drain"
                         /\ lastOp'.invoked # 0
                         /\ jobs[lastOp'.invoked].name = nm
                         /\ lastOp'.out = "throws"
          /\ (\/ lastOp'.op \in {"start", "stop", "getActiveJobs", "settle"}
              \/ lastOp'.op = "tick" /\ lastOp'.res = "dropped") =>
                jobStates' = jobStates
         ]_vars

\* stop() has run after a second start() while the dispatch of job b is
\* accepted and not yet run: the flag of b is set, that of a is not
C21_Witness ==
    /\ lastOp.op = "stop"
    /\ Len(jobStates) = 3
    /\ MapGet(jobStates, "b") /\ ~MapGet(jobStates, "a")
    /\ order = <<2>>
    /\ nStarts = 2

\* two different entries of the job list with the same name
SameName(j, k) == IsJob(j) /\ IsJob(k) /\ j # k /\ jobs[j].name = jobs[k].name

\* C22: for two jobs with the same name, in both modes: while a dispatch of
\* one is queued or executing the flag they share is set and every tick of
\* the other is dropped; the two are never queued or executing at the same
\* time; and when the closure of either finishes the flag is false for both.
C22_SharedFlag ==
    /\ [](\A j, k \in JobIds : (SameName(j, k) /\ InFlight(j) > 0) =>
             /\ MapGet(jobStates, jobs[k].name)
             /\ InFlight(k) = 0)
    /\ [][\A j, k \in JobIds : SameName(j, k) =>
             /\ (InFlight(j) > 0 /\ lastOp'.op = "tick" /\ lastOp'.job = k) =>
                   (lastOp'.res = "dropped" /\ lastOp'.invoked = 0)
             /\ (lastOp'.op = "taskDone" /\ lastOp'.job = j) =>
                   /\ ~MapGet(jobStates', jobs[j].name)
                   /\ ~MapGet(jobStates', jobs[k].name)
         ]_vars

\* parallel mode: a tick of the second job named a was dropped while the
\* first job named a is executing
C22_Witness ==
    /\ executionMode = "parallel"
    /\ SameName(1, 2)
    /\ lastOp.op = "tick" /\ lastOp.job = 2 /\ lastOp.res = "dropped"
    /\ Running(1) # {}

----------------------------------------------------------------------------
(* ContentFileManager *)

\* no scheduler; the file manager, the REST component and the content
\* pipeline as they are when the program starts
FolderInit == QueueInit

\* arguments of setRootDirectory: "/r", "/r/x", "/q", "."
RootArgs ==
    { <<"/", "r">>, <<"/", "r", "/", "x">>, <<"/", "q">>, <<".">> }

\* arguments of deleteFolder and createFolder: the directories of the disk
\* and "x", "/r/", "/r/../q", ".."
PathArgs ==
    Disk \cup { <<"x">>, <<"/", "r", "/">>,
                <<"/", "r", "/", ".", ".", "/", "q">>, <<".", ".">> }

SetRootDirectory(rootDir) ==
    /\ ROOT_DIR' = resolve(rootDir)
    /\ lastOp' = [NoOp EXCEPT !.op = "setRootDirectory", !.res = "returned",
                              !.ret = rootDir]
    /\ UNCHANGED <<schedVars, folders, restVars, pipeVars>>

DeleteFolder(dirPath) ==
    /\ LET r == deleteFolder(folders, ROOT_DIR, dirPath)
       IN  /\ folders' = r.folders
           /\ lastOp' = [NoOp EXCEPT !.op = "deleteFolder", !.ret = dirPath,
                            !.res = IF r.threw THEN "threw" ELSE "returned"]
    /\ UNCHANGED <<schedVars, ROOT_DIR, restVars, pipeVars>>

\* fs.mkdirSync(dirPath, {recursive}): the directory and its missing parents
CreateFolder(dirPath) ==
    /\ LET segs == normalize(split(resolve(dirPath), <<>>, <<>>), <<>>)
       IN  folders' = folders \cup
                        {joinSegs(SubSeq(segs, 1, k)) : k \in 1..Len(segs)}
    /\ lastOp' = [NoOp EXCEPT !.op = "createFolder", !.res = "returned",
                              !.ret = dirPath]
    /\ UNCHANGED <<schedVars, ROOT_DIR, restVars, pipeVars>>

FolderNext ==
    \/ \E rootDir \in RootArgs : SetRootDirectory(rootDir)
    \/ \E dirPath \in PathArgs : DeleteFolder(dirPath)
    \/ \E dirPath \in PathArgs : CreateFolder(dirPath)

FolderSpec == FolderInit /\ [][FolderNext]_vars

\* directory d is the directory root or lies below it
Within(d, root) ==
    LET ds == normalize(split(d, <<>>, <<>>), <<>>)
        rs == normalize(split(root, <<>>, <<>>), <<>>)
    IN  Len(rs) <= Len(ds) /\ SubSeq(ds, 1, Len(rs)) = rs

\* C23: deleteFolder removes directories only at or below the resolved path,
\* and only when that path is the root directory or lies below it; for every
\* other path it throws and every directory is still there.
C23_DeleteOnlyWithinRoot ==
    [][lastOp'.op = "deleteFolder" =>
          LET resolvedPath == resolve(lastOp'.ret)
          IN  IF Within(resolvedPath, ROOT_DIR)
              THEN /\ folders' \subseteq folders
                   /\ \A d \in folders \ folders' : Within(d, resolvedPath)
              ELSE lastOp'.res = "threw" /\ folders' = folders
    ]_vars

----------------------------------------------------------------------------
(* RESTComponent with jwt auth by username and password *)

MaxPosts == 2
MaxClock == 5

\* Date.now() is read at multiples of half the refresh window
ClockStep == JWT_REFRESH_OFFSET_MS \div 2

\* the access_token values the token endpoint answers with: tokens of three
\* parts expiring at second 60, 120 or 180 or with exp 0, a token without
\* exp claim, a token of two parts, and no access_token at all
AccessTokens ==
    { [def |-> TRUE, parts |-> 3, num |-> TRUE, exp |-> e] : e \in {0, 60, 120, 180} }
    \cup { [def |-> TRUE, parts |-> 3, num |-> FALSE, exp |-> 0],
           [def |-> TRUE, parts |-> 2, num |-> TRUE, exp |-> 60],
           Undefined }

\* no scheduler; a RESTComponent as constructed, with nothing cached
RestStart == QueueInit

\* A request: buildRequestConfig calls getJwt.
GetJwt ==
    /\ LET r == getJwt(cachedJwt, now)
       IN  /\ r.post => Len(posts) < MaxPosts
           /\ posts' = IF r.post THEN Append(posts, now) ELSE posts
           /\ lastOp' = [NoOp EXCEPT !.op = "getJwt",
                            !.res = IF r.post THEN "login" ELSE "cached",
                            !.ret = r.token]
    /\ UNCHANGED <<schedVars, fileVars, pipeVars, cachedJwt, now>>

\* The token endpoint answers the oldest login call.
LoginReply(accessToken) ==
    /\ posts # <<>>
    /\ LET r == getJwtResume(accessToken, now)
       IN  /\ cachedJwt' = r.cached
           /\ lastOp' = [NoOp EXCEPT !.op = "loginReply", !.ret = accessToken,
                            !.res = IF r.threw THEN "threw" ELSE "returned"]
    /\ posts' = Tail(posts)
    /\ UNCHANGED <<schedVars, fileVars, pipeVars, now>>

\* The login call fails: getJwt rejects before it writes the cache.
LoginFails ==
    /\ posts # <<>>
    /\ posts' = Tail(posts)
    /\ lastOp' = [NoOp EXCEPT !.op = "loginFails", !.res = "threw"]
    /\ UNCHANGED <<schedVars, fileVars, pipeVars, cachedJwt, now>>

Advance ==
    /\ now < MaxClock * ClockStep
    /\ now' = now + ClockStep
    /\ lastOp' = [NoOp EXCEPT !.op = "advance"]
    /\ UNCHANGED <<schedVars, fileVars, pipeVars, cachedJwt, posts>>

RestNext ==
    \/ GetJwt
    \/ \E accessToken \in AccessTokens : LoginReply(accessToken)
    \/ LoginFails
    \/ Advance

RestSpec == RestStart /\ [][RestNext]_vars

\* token has an exp claim that time t has reached, or will reach within the
\* refresh window of 60 seconds
ExpiresWithinWindow(token, t) ==
    /\ token.def /\ token.parts >= 3 /\ token.num
    /\ t + 60 * 1000 >= token.exp * 1000

\* C24: a login call is issued only by a request that finds no cached token
\* or a cached token that is expired or within 60 seconds of its expiry;
\* every other request returns the cached token and issues no login call.
C24_LoginOnlyWhenStale ==
    [][/\ Len(posts') > Len(posts) =>
            /\ lastOp'.op = "getJwt" /\ lastOp'.res = "login"
            /\ ~cachedJwt.def \/ ExpiresWithinWindow(cachedJwt, now)
       /\ (lastOp'.op = "getJwt" /\ cachedJwt.def
             /\ ~ExpiresWithinWindow(cachedJwt, now)) =>
            /\ lastOp'.res = "cached"
            /\ lastOp'.ret = cachedJwt
            /\ posts' = posts
            /\ cachedJwt' = cachedJwt
    ]_vars

\* a request has issued a login call because the cached token, valid
\* before, has come within the refresh window
C24_Witness ==
    /\ lastOp.op = "getJwt" /\ lastOp.res = "login"
    /\ cachedJwt.def /\ cachedJwt.num /\ cachedJwt.parts = 3
    /\ cachedJwt.exp = 120
    /\ now = 2 * ClockStep

----------------------------------------------------------------------------
(* A component and a ContentBuilder that holds it *)

MaxProcessors == 2

\* the post-processors a caller attaches
Processors == {"p", "q"}

\* what generateContent() of the component resolves to
Generated == <<"gen">>

\* no scheduler; the component and the builder as constructed
PipeStart == QueueInit

\* postProcess(...processors) of the component or of the builder, with one
\* or two processors
PostProcess(target, processors) ==
    /\ Len(postProcessors[target]) + Len(processors) <= MaxProcessors
    /\ postProcessors' =
          [postProcessors EXCEPT ![target] = postProcess(@, processors)]
    /\ lastOp' = [NoOp EXCEPT !.op = "postProcess", !.res = target,
                              !.ret = processors]
    /\ UNCHANGED <<schedVars, fileVars, restVars, runs>>

\* getContent() of the component, or compose() of the builder, which calls
\* getContent() of the component: up to `await this.generateContent()`.
\* The caller awaits each call before it makes the next one.
Call(kind) ==
    /\ runs = <<>>
    /\ runs' = Append(runs, [kind |-> kind, stage |-> "generate",
                             content |-> <<>>, idx |-> 0, first |-> <<>>])
    /\ lastOp' = [NoOp EXCEPT !.op = "call", !.res = kind]
    /\ UNCHANGED <<schedVars, fileVars, restVars, postProcessors>>

\* generateContent() resolves
GenerateContent(i) ==
    /\ i \in 1..Len(runs)
    /\ runs[i].stage = "generate"
    /\ runs' = [runs EXCEPT ![i].stage = "component", ![i].content = Generated,
                            ![i].first = Generated]
    /\ lastOp' = [NoOp EXCEPT !.op = "generated", !.job = i]
    /\ UNCHANGED <<schedVars, fileVars, restVars, postProcessors>>

\* one iteration of the loop over the post-processors: the processor is
\* called with the content and its result is awaited
Iterate(i) ==
    /\ i \in 1..Len(runs)
    /\ runs[i].stage \in {"component", "builder"}
    /\ runs[i].idx < Len(postProcessors[runs[i].stage])
    /\ LET r == runs[i]
           processor == nextProcessor(postProcessors[r.stage], r.idx)
       IN  /\ runs' = [runs EXCEPT
                          ![i].content = runProcessor(processor, r.content),
                          ![i].idx = r.idx + 1]
           /\ lastOp' = [NoOp EXCEPT !.op = "processor", !.job = i,
                                     !.res = processor, !.ret = r.content]
    /\ UNCHANGED <<schedVars, fileVars, restVars, postProcessors>>

\* a post-processor rejects: the call rejects, no later processor runs
ProcessorFails(i) ==
    /\ i \in 1..Len(runs)
    /\ runs[i].stage \in {"component", "builder"}
    /\ runs[i].idx < Len(postProcessors[runs[i].stage])
    /\ runs' = RemoveAt(runs, i)
    /\ lastOp' = [NoOp EXCEPT !.op = "return", !.job = i, !.res = "threw"]
    /\ UNCHANGED <<schedVars, fileVars, restVars, postProcessors>>

\* getContent() of the component has returned inside compose(): the parts
\* are joined with the start and end text of the builder
Assemble(i, startContent, endContent, description) ==
    /\ i \in 1..Len(runs)
    /\ runs[i].kind = "compose" /\ runs[i].stage = "component"
    /\ runs[i].idx = Len(postProcessors.component)
    /\ LET result == composeParts(startContent,
                        <<componentPart(description, runs[i].content)>>,
                        endContent)
       IN  /\ runs' = [runs EXCEPT ![i].stage = "builder", ![i].idx = 0,
                                   ![i].content = result, ![i].first = result]
           /\ lastOp' = [NoOp EXCEPT !.op = "assemble", !.job = i,
                                     !.ret = runs[i].content]
    /\ UNCHANGED <<schedVars, fileVars, restVars, postProcessors>>

\* the loop has ended: getContent() or compose() returns the content
Return(i) ==
    /\ i \in 1..Len(runs)
    /\ \/ runs[i].kind = "getContent" /\ runs[i].stage = "component"
       \/ runs[i].stage = "builder"
    /\ runs[i].idx = Len(postProcessors[runs[i].stage])
    /\ runs' = RemoveAt(runs, i)
    /\ lastOp' = [NoOp EXCEPT !.op = "return", !.job = i, !.res = "returned",
                              !.ret = runs[i].content]
    /\ UNCHANGED <<schedVars, fileVars, restVars, postProcessors>>

PipeNext ==
    \/ \E target \in {"component", "builder"}, x, y \in Processors :
          PostProcess(target, <<x>>) \/ PostProcess(target, <<x, y>>)
    \/ \E kind \in {"getContent", "compose"} : Call(kind)
    \/ \E i \in 1..Len(runs) : GenerateContent(i)
    \/ \E i \in 1..Len(runs) : Iterate(i)
    \/ \E i \in 1..Len(runs) : ProcessorFails(i)
    \/ \E i \in 1..Len(runs), startContent \in {<<" ">>, <<"s">>},
          endContent \in {<<>>, <<"e">>}, description \in {<<>>, <<"d">>} :
          Assemble(i, startContent, endContent, description)
    \/ \E i \in 1..Len(runs) : Return(i)

PipeSpec == PipeStart /\ [][PipeNext]_vars

\* C25: postProcess() appends to the list it is called on; every iteration
\* of getContent() and of compose() calls the processor at the position that
\* follows the finished ones with the content the one before it returned,
\* the first with the generated or composed content; and the call returns
\* that content with the marks of all attached processors in the order of
\* their attachment.
C25_ProcessorsInOrder ==
    /\ [](\A i \in 1..Len(runs) :
             runs[i].stage \in {"component", "builder"} =>
                /\ runs[i].idx <= Len(postProcessors[runs[i].stage])
                /\ runs[i].content = runs[i].first
                      \o SubSeq(postProcessors[runs[i].stage], 1, runs[i].idx))
    /\ [][/\ lastOp'.op = "postProcess" =>
               postProcessors'[lastOp'.res] =
                  postProcessors[lastOp'.res] \o lastOp'.ret
          /\ lastOp'.op = "processor" =>
               LET r == runs[lastOp'.job]
               IN  /\ lastOp'.res = postProcessors[r.stage][r.idx + 1]
                   /\ lastOp'.ret = r.content
                   /\ r.idx = 0 => lastOp'.ret = r.first
          /\ (lastOp'.op = "return" /\ lastOp'.res = "returned") =>
               LET r == runs[lastOp'.job]
               IN  lastOp'.ret = r.first \o postProcessors[r.stage]
          /\ lastOp'.op = "assemble" =>
               lastOp'.ret = Generated \o postProcessors.component
          /\ \A i \in 1..Len(runs) : runs[i].stage = "generate" =>
               (runs'[i].stage = "component" => runs'[i].first = Generated)
         ]_vars

\* compose() has returned content that went through two processors of the
\* component and then through the processors q and p of the builder, q
\* attached first
C25_Witness ==
    /\ lastOp.op = "return" /\ lastOp.res = "returned"
    /\ postProcessors.builder = <<"q", "p">>
    /\ Len(postProcessors.component) = 2
    /\ Len(lastOp.ret) >= 2
    /\ SubSeq(lastOp.ret, Len(lastOp.ret) - 1, Len(lastOp.ret)) = <<"q", "p">>
    /\ \E k \in 1..Len(lastOp.ret) : lastOp.ret[k] = "\n\n"

----------------------------------------------------------------------------
(* The sequential queue *)

\* C26: in sequential mode no two closures in the queue belong to jobs of
\* one name, no queued closure has the name of the one being run, and the
\* closures queued and being run are never more than the job names.
C26_QueueBounded ==
    executionMode = "sequential" =>
       /\ \A i, k \in 1..Len(queue) :
             jobs[queue[i]].name = jobs[queue[k]].name => i = k
       /\ \A i \in 1..Len(queue), c \in 1..Len(calls) :
             jobs[queue[i]].name # jobs[calls[c].job].name
       /\ Len(calls) <= 1
       /\ Len(queue) + Len(calls) <= Cardinality(JobNames)

\* one job runs and the two others wait, each job with two armed timers,
\* and a further tick was dropped
C26_Witness ==
    /\ executionMode = "sequential"
    /\ Len(queue) = 2 /\ Len(calls) = 1
    /\ Cardinality(JobNames) = 3
    /\ \A j \in 1..Len(jobs) : ArmedCount(j) = 2
    /\ lastOp.op = "tick" /\ lastOp.res = "dropped"

\* position of the closure of job j in the queue (0: not queued)
QueuePos(q, j) == IndexOf(q, j)

\* C27: in sequential mode, while the closure of job J waits in the queue,
\* the closures before it are closures of different jobs; a step that calls
\* an execute() calls that of the job at the head and moves J one place
\* forward; every other step leaves the closures before J as they are, so
\* whatever is accepted meanwhile waits behind J and each job before J is
\* started once.
C27_BoundedWaiting ==
    /\ [](executionMode = "sequential" =>
            \A i, k \in 1..Len(queue) : queue[i] = queue[k] => i = k)
    /\ [][\A J \in JobIds :
            (executionMode = "sequential" /\ IsJob(J)
               /\ QueuePos(queue, J) > 0 /\ QueuePos(queue', J) > 0) =>
               LET pos  == QueuePos(queue, J)
                   pos2 == QueuePos(queue', J)
               IN  IF lastOp'.invoked # 0
                   THEN /\ lastOp'.invoked = Head(queue)
                        /\ lastOp'.invoked # J
                        /\ pos2 = pos - 1
                        /\ SubSeq(queue', 1, pos2) = SubSeq(queue, 2, pos)
                   ELSE /\ pos2 = pos
                        /\ SubSeq(queue', 1, pos2) = SubSeq(queue, 1, pos)
         ]_vars

\* job b was started while c waited behind it, and job a, which had run
\* before b, is accepted again and waits behind c
C27_Witness ==
    /\ executionMode = "sequential"
    /\ queue = <<3, 1>>
    /\ Len(calls) = 1 /\ calls[1].job = 2
    /\ lastOp.op = "tick" /\ lastOp.res = "accepted" /\ lastOp.job = 1

----------------------------------------------------------------------------
(* start() on a list with an unknown unit *)

\* the first position of the list whose interval has an unknown unit
FirstBad == CHOOSE i \in 1..Len(jobs) :
               BadUnit(i) /\ \A k \in 1..(i - 1) : ~BadUnit(k)

\* C28: on a list with an unknown unit at position i, every start() throws
\* after appending one armed timer for each position before i; no timer is
\* ever armed for position i or a later one; the armed timers can fire after
\* the throw; and stop() leaves no timer armed.
C28_StartNotAtomic ==
    /\ []((\E i \in 1..Len(jobs) : BadUnit(i)) =>
            \A t \in 1..Len(timers) :
               /\ timers[t].job < FirstBad
               /\ (~timers[t].cleared /\ NoMicrotask) => ENABLED Tick(t))
    /\ [][(\E i \in 1..Len(jobs) : BadUnit(i)) =>
            /\ lastOp'.op = "start" =>
                  /\ lastOp'.res = "threw"
                  /\ Len(timers') = Len(timers) + FirstBad - 1
                  /\ \A t \in 1..Len(timers) : timers'[t] = timers[t]
                  /\ \A k \in 1..(FirstBad - 1) :
                        /\ timers'[Len(timers) + k].job = k
                        /\ ~timers'[Len(timers) + k].cleared
            /\ lastOp'.op = "stop" =>
                  \A t \in 1..Len(timers') : timers'[t].cleared
         ]_vars

\* after two start() calls that threw, a timer armed by them has fired and
\* stop() has cancelled both
C28_Witness ==
    /\ \E i \in 1..Len(jobs) : BadUnit(i)
    /\ FirstBad = 2 /\ Len(jobs) = 3
    /\ lastOp.op = "stop" /\ lastOp.n = 2
    /\ InFlight(1) = 1
    /\ \A t \in 1..Len(timers) : timers[t].job = 1 /\ timers[t].cleared

----------------------------------------------------------------------------
(* Where execute() is called from *)

\* C29 as stated: start() calls no execute(), every flag is false when
\* start() returns, and execute() is called only inside a timer tick.
C29_InvokedOnlyInTick ==
    [][/\ lastOp'.op = "start" =>
            /\ lastOp'.invoked = 0
            /\ \A e \in 1..Len(jobStates') : ~jobStates'[e].val
       /\ lastOp'.invoked # 0 => lastOp'.op = "tick"
    ]_vars

\* C29: start() calls no execute(), accepts no dispatch and writes no flag,
\* so that every flag is false when the first start() returns; execute() of
\* a job is called only for a dispatch that a tick of one of its timers
\* accepted: inside that tick, or, in sequential mode, by the drain loop
\* when the closure is at the head of the queue; and never before a start().
C29_InvokedOnlyForTicks ==
    /\ []((lastOp.op = "start" /\ nStarts = 1) =>
            \A e \in 1..Len(jobStates) : ~jobStates[e].val)
    /\ [][/\ lastOp'.op = "start" =>
               /\ lastOp'.invoked = 0
               /\ UNCHANGED <<jobStates, queue, isProcessing, calls, resumes,
                              order>>
          /\ lastOp'.invoked # 0 =>
               /\ nStarts >= 1
               /\ \/ /\ lastOp'.op = "tick" /\ lastOp'.res = "accepted"
                     /\ lastOp'.job = lastOp'.invoked
                     /\ Armed(lastOp'.invoked)
                  \/ /\ executionMode = "sequential"
                     /\ lastOp'.op = "drain"
                     /\ queue # <<>> /\ lastOp'.invoked = Head(queue)
                     /\ IndexOf(order, lastOp'.invoked) > 0
         ]_vars

\* sequential mode: the drain loop, not a tick, has called execute() of job
\* b after a second start()
C29_Witness ==
    /\ executionMode = "sequential"
    /\ lastOp.op = "drain" /\ lastOp.invoked = 2
    /\ nStarts = 2

----------------------------------------------------------------------------
(* stop() and restart *)

\* C30: a stop() with no timer armed changes nothing; a start() that follows
\* a stop(), on a list of known units, appends one armed timer per job and
\* leaves every job with exactly one, the cancelled handles staying in the
\* list; a cancelled timer stays cancelled and cannot fire; neither call
\* writes a flag, and while a dispatch of a job is in flight its flag is set
\* and each tick of it is dropped, after a restart as before.
C30_Restartable ==
    /\ [](\A t \in 1..Len(timers) : timers[t].cleared => ~ENABLED Tick(t))
    /\ [](\A j \in 1..Len(jobs) :
             InFlight(j) > 0 => MapGet(jobStates, jobs[j].name))
    /\ [][/\ (lastOp'.op = "stop" /\ \A t \in 1..Len(timers) : timers[t].cleared)
               => (timers' = timers /\ lastOp'.res = "returned")
          /\ (phase = "stopped" /\ lastOp'.op = "start"
                /\ \A i \in 1..Len(jobs) : ~BadUnit(i)) =>
               /\ Len(timers') = Len(timers) + Len(jobs)
               /\ \A t \in 1..Len(timers) :
                     timers'[t] = timers[t] /\ timers'[t].cleared
               /\ \A j \in 1..Len(jobs) : ArmedCount(j)' = 1
          /\ \A t \in 1..Len(timers) : timers[t].cleared => timers'[t].cleared
          /\ lastOp'.op \in {"stop", "start"} => jobStates' = jobStates
          /\ \A j \in 1..Len(jobs) :
               (InFlight(j) > 0 /\ lastOp'.op = "tick" /\ lastOp'.job = j) =>
                  (lastOp'.res = "dropped" /\ lastOp'.invoked = 0)
         ]_vars

\* start() has returned after start() and stop(), with a job that has been
\* executing since before the stop(): its flag is set, three cancelled
\* handles are in the list and each job has one armed timer
C30_Witness ==
    /\ lastOp.op = "start" /\ lastOp.res = "returned"
    /\ nStarts = 2 /\ sinceStop = 1
    /\ Len(jobs) = 3 /\ Len(timers) = 6
    /\ \A j \in 1..Len(jobs) : ArmedCount(j) = 1
    /\ Len(calls) = 1 /\ calls[1].pc = "pending"
    /\ MapGet(jobStates, jobs[calls[1].job].name)

====
